---- MODULE Spec2Model ----
(***************************************************************************)
(* Model of the AI Webshop API (src/main.py, src/schemas.py).              *)
(*                                                                         *)
(* The HTTP handlers of src/main.py are the actions.  The document store   *)
(* client (module `database`: db, create_document, get_documents) is not   *)
(* part of the sources; it is modelled from section 4.1 of the             *)
(* specification and from the way main.py uses it ("naive update using     *)
(* pymongo directly via database.db", main.py:114).                        *)
(*                                                                         *)
(* Conventions                                                             *)
(*   Optional[T]   : <<>> is None, <<x>> is the value x                    *)
(*   text (q, title, description) : sequence of one-character strings      *)
(*   unit_price, total, amount    : integer cents (9.99 is 999)            *)
(*   order id      : 0 is a string that is no ObjectId, n >= 1 is the      *)
(*                   ObjectId of the n-th document inserted in "order"     *)
(***************************************************************************)
EXTENDS Integers, Sequences, FiniteSets, TLC

VARIABLES db, store_up, store, inflight, resp

vars == <<db, store_up, store, inflight, resp>>

---------------------------------------------------------------------------
(* Bounds of the model *)
MaxItems == 2
MaxOrders == 2
MaxInflight == 2
MaxFill == 25
MaxContent == 21

(* Program constants *)
DefaultLimit == 24
ListingLimit == 20
DefaultQuantity == 1

---------------------------------------------------------------------------
(* Optional values and small helpers *)
None == <<>>

Some(x) == <<x>>

Min(a, b) == IF a < b THEN a ELSE b

Abs(n) == IF n < 0 THEN 0 - n ELSE n

Range(s) == {s[i] : i \in DOMAIN s}

Collections == {"category", "product", "order", "blogpost", "testimonial", "portfolioitem"}

---------------------------------------------------------------------------
(* Store query semantics: {"$regex": q, "$options": "i"}, equality, $in *)
Lower(c) == CASE c = "W" -> "w" [] c = "X" -> "x" [] OTHER -> c

CharMatch(qc, sc) == qc = "." \/ Lower(qc) = Lower(sc)

RegexSearch(q, s) ==
  \E i \in 0..(Len(s) - Len(q)) : \A j \in 1..Len(q) : CharMatch(q[j], s[i + j])

RegexField(q, field) == field # None /\ RegexSearch(q, field[1])

EmptyFilter == [category |-> None, or |-> None, tags |-> None]

MatchesFilter(doc, filt) ==
  /\ filt.category # None => doc.category = filt.category[1]
  /\ filt.or # None =>
       \/ RegexField(filt.or[1], Some(doc.title))
       \/ RegexField(filt.or[1], doc.description)
  /\ filt.tags # None => Range(doc.tags) \cap Range(filt.tags[1]) # {}

RECURSIVE SelectDocs(_, _)
SelectDocs(docs, filt) ==
  IF docs = <<>> THEN <<>>
  ELSE IF MatchesFilter(docs[1], filt)
  THEN <<docs[1]>> \o SelectDocs(Tail(docs), filt)
  ELSE SelectDocs(Tail(docs), filt)

(* cursor.limit(n): 0 is "no limit", a negative n is a limit of |n| *)
CursorLimit(docs, limit) ==
  IF limit = None \/ limit[1] = 0 THEN docs
  ELSE SubSeq(docs, 1, Min(Len(docs), Abs(limit[1])))

---------------------------------------------------------------------------
(* Document store client (module database) *)
Raised == [ok |-> FALSE]

get_documents(collection_name, filt, limit) ==
  IF db = "None" \/ ~store_up THEN Raised
  ELSE LET found == IF filt = EmptyFilter THEN store[collection_name]
                    ELSE SelectDocs(store[collection_name], filt)
       IN [ok |-> TRUE, docs |-> CursorLimit(found, limit)]

create_document(collection_name, doc) ==
  IF db = "None" \/ ~store_up THEN [ok |-> FALSE, store |-> store]
  ELSE [ok |-> TRUE,
        id |-> Len(store[collection_name]) + 1,
        store |-> [store EXCEPT ![collection_name] = Append(@, doc)]]

update_one(collection_name, id, status) ==
  IF ~store_up THEN [ok |-> FALSE, store |-> store]
  ELSE IF id \in DOMAIN store[collection_name]
  THEN [ok |-> TRUE,
        store |-> [store EXCEPT ![collection_name][id].status = status]]
  ELSE [ok |-> TRUE, store |-> store]

---------------------------------------------------------------------------
(* raise HTTPException(status_code=500, detail=str(e)) *)
HTTPException(endpoint) == [endpoint |-> endpoint, code |-> 500]

---------------------------------------------------------------------------
(* Catalog endpoints *)
ProductFilter(body) ==
  [category |-> body.category, q |-> body.q, tags |-> body.tags,
   limit |-> IF body.limit = None THEN DefaultLimit ELSE body.limit[1]]

(* Python truthiness of an Optional[str] / Optional[List[str]] *)
Truthy(opt, empty) == opt # None /\ opt[1] # empty

search_filter(payload) ==
  [category |-> IF Truthy(payload.category, "") THEN payload.category ELSE None,
   or |-> IF Truthy(payload.q, <<>>) THEN payload.q ELSE None,
   tags |-> IF Truthy(payload.tags, <<>>) THEN payload.tags ELSE None]

list_categories ==
  LET r == get_documents("category", EmptyFilter, None) IN
  /\ resp' = IF r.ok
             THEN [endpoint |-> "list_categories", code |-> 200, docs |-> r.docs]
             ELSE HTTPException("list_categories")
  /\ UNCHANGED <<db, store_up, store, inflight>>

search_products(body) ==
  LET payload == ProductFilter(body)
      filt == search_filter(payload)
      r == get_documents("product", filt, Some(payload.limit))
  IN
  /\ resp' = IF r.ok
             THEN [endpoint |-> "search_products", code |-> 200,
                   products |-> r.docs, req |-> body]
             ELSE HTTPException("search_products")
  /\ UNCHANGED <<db, store_up, store, inflight>>

---------------------------------------------------------------------------
(* Environment: the store becomes unreachable / reachable again *)
StoreDown ==
  /\ db = "Database" /\ store_up
  /\ store_up' = FALSE
  /\ UNCHANGED <<db, store, inflight, resp>>

StoreUp ==
  /\ db = "Database" /\ ~store_up
  /\ store_up' = TRUE
  /\ UNCHANGED <<db, store, inflight, resp>>

---------------------------------------------------------------------------
(* Inputs and initial states of the catalog specification *)
P1 == [kind |-> "Product", title |-> <<"W", "x">>, description |-> None,
       category |-> "a", tags |-> <<"t">>]

P2 == [kind |-> "Product", title |-> <<"x">>, description |-> Some(<<"w">>),
       category |-> "b", tags |-> <<>>]

P3 == [kind |-> "Product", title |-> <<"x">>, description |-> Some(<<>>),
       category |-> "a", tags |-> <<"u", "t">>]

PFill == [kind |-> "Product", title |-> <<"x", "x">>, description |-> None,
          category |-> "b", tags |-> <<"u">>]

Opt(b, d) == IF b THEN <<d>> ELSE <<>>

ProductStores ==
  {Opt(b1, P1) \o Opt(b2, P2) \o <<P3>> \o [i \in 1..n |-> PFill] :
     b1 \in BOOLEAN, b2 \in BOOLEAN, n \in {0, MaxFill}}

CategoryDocs(n) == [i \in 1..n |-> [kind |-> "Category", slug |-> i]]

SearchBodies ==
  [category : {None, Some(""), Some("a")},
   q : {None, Some(<<>>), Some(<<"w">>)},
   tags : {None, Some(<<>>), Some(<<"t">>)},
   limit : {None, Some(0 - 1), Some(0), Some(2)}]

EmptyStore == [c \in Collections |-> <<>>]

NoResponse == [endpoint |-> "none", code |-> 0]

InitCatalog ==
  /\ db \in {"None", "Database"}
  /\ store_up = TRUE
  /\ \E ps \in ProductStores :
       store = [EmptyStore EXCEPT !["product"] = ps, !["category"] = CategoryDocs(2)]
  /\ inflight = {}
  /\ resp = NoResponse

NextCatalog ==
  \/ list_categories
  \/ \E body \in SearchBodies : search_products(body)
  \/ StoreDown
  \/ StoreUp

SpecCatalog == InitCatalog /\ [][NextCatalog]_vars

---------------------------------------------------------------------------
(* Content endpoints: blog, testimonials, portfolio *)
list_blog_unlimited ==
  LET r == get_documents("blogpost", EmptyFilter, None) IN
  /\ resp' = IF r.ok
             THEN [endpoint |-> "list_blog", code |-> 200, docs |-> r.docs]
             ELSE HTTPException("list_blog")
  /\ UNCHANGED <<db, store_up, store, inflight>>

list_blog ==
  LET r == get_documents("blogpost", EmptyFilter, Some(ListingLimit)) IN
  /\ resp' = IF r.ok
             THEN [endpoint |-> "list_blog", code |-> 200, docs |-> r.docs]
             ELSE HTTPException("list_blog")
  /\ UNCHANGED <<db, store_up, store, inflight>>

list_testimonials ==
  LET r == get_documents("testimonial", EmptyFilter, Some(ListingLimit)) IN
  /\ resp' = IF r.ok
             THEN [endpoint |-> "list_testimonials", code |-> 200, docs |-> r.docs]
             ELSE HTTPException("list_testimonials")
  /\ UNCHANGED <<db, store_up, store, inflight>>

list_portfolio ==
  LET r == get_documents("portfolioitem", EmptyFilter, Some(ListingLimit)) IN
  /\ resp' = IF r.ok
             THEN [endpoint |-> "list_portfolio", code |-> 200, docs |-> r.docs]
             ELSE HTTPException("list_portfolio")
  /\ UNCHANGED <<db, store_up, store, inflight>>

ContentDocs(kind, n) == [i \in 1..n |-> [kind |-> kind, slug |-> i]]

ContentSizes == {0, 1, ListingLimit, MaxContent}

InitContent ==
  /\ db \in {"None", "Database"}
  /\ store_up = TRUE
  /\ \E nb \in ContentSizes, nt \in ContentSizes, np \in ContentSizes :
       store = [EmptyStore EXCEPT !["blogpost"] = ContentDocs("BlogPost", nb),
                                  !["testimonial"] = ContentDocs("Testimonial", nt),
                                  !["portfolioitem"] = ContentDocs("PortfolioItem", np)]
  /\ inflight = {}
  /\ resp = NoResponse

NextContent ==
  \/ list_blog
  \/ list_testimonials
  \/ list_portfolio
  \/ StoreDown
  \/ StoreUp

SpecContent == InitContent /\ [][NextContent]_vars

---------------------------------------------------------------------------
(* Orders / checkout *)
CheckoutItem(raw) ==
  [product_id |-> raw.product_id, title |-> raw.title, unit_price |-> raw.unit_price,
   quantity |-> IF raw.quantity = None THEN DefaultQuantity ELSE raw.quantity[1]]

(* request validation: unknown fields of the body (a client total) are dropped *)
CheckoutPayload(body) ==
  [email |-> body.email, items |-> [i \in DOMAIN body.items |-> CheckoutItem(body.items[i])]]

RECURSIVE order_total_unit_only(_)
order_total_unit_only(items) ==
  IF items = <<>> THEN 0
  ELSE items[1].unit_price + order_total_unit_only(Tail(items))

RECURSIVE order_total(_)
order_total(items) ==
  IF items = <<>> THEN 0
  ELSE items[1].unit_price * items[1].quantity + order_total(Tail(items))

checkout(body) ==
  LET payload == CheckoutPayload(body)
      total == order_total(payload.items)
      order_doc == [user_email |-> payload.email, items |-> payload.items,
                    total |-> total, status |-> "pending"]
      r == create_document("order", order_doc)
  IN
  /\ Len(store["order"]) < MaxOrders
  /\ store' = r.store
  /\ resp' = IF r.ok
             THEN [endpoint |-> "checkout", code |-> 200, status |-> "requires_payment",
                   order_id |-> r.id, amount |-> total, req |-> body]
             ELSE HTTPException("checkout")
  /\ UNCHANGED <<db, store_up, inflight>>

---------------------------------------------------------------------------
(* Payment confirmation *)
Requested(payload) == IF payload.success THEN "paid" ELSE "failed"

(* db is the pymongo Database handle (main.py:114).  A Database has no     *)
(* ObjectId method: the attribute access yields the collection "ObjectId"  *)
(* and calling a collection raises TypeError, whatever the argument.       *)
db_ObjectId(order_id) == Raised

(* reachable and raised are observations for the properties, not part of  *)
(* the JSON body: was the store reachable, was the except branch taken     *)
confirm_except_500(payload) ==
  [endpoint |-> "confirm_payment", code |-> 500, status |-> "error",
   req |-> payload, raised |-> TRUE, reachable |-> db = "Database" /\ store_up]

confirm_except(payload) ==
  [endpoint |-> "confirm_payment", code |-> 200, status |-> Requested(payload),
   req |-> payload, raised |-> TRUE, reachable |-> db = "Database" /\ store_up]

confirm_try(payload) ==
  IF db = "None" THEN [ok |-> FALSE, store |-> store]
  ELSE LET status == Requested(payload)
           oid == db_ObjectId(payload.order_id)
       IN IF ~oid.ok THEN [ok |-> FALSE, store |-> store]
          ELSE LET u == update_one("order", oid.id, status)
               IN [ok |-> u.ok, store |-> u.store, status |-> status]

(* a confirmation request arrives; requests are handled independently *)
confirm_request(payload) ==
  /\ Cardinality(inflight) < MaxInflight
  /\ payload \notin inflight
  /\ inflight' = inflight \cup {payload}
  /\ UNCHANGED <<db, store_up, store, resp>>

confirm_payment(payload) ==
  LET t == confirm_try(payload) IN
  /\ payload \in inflight
  /\ inflight' = inflight \ {payload}
  /\ store' = t.store
  /\ resp' = IF t.ok
             THEN [endpoint |-> "confirm_payment", code |-> 200, status |-> t.status,
                   req |-> payload, raised |-> FALSE,
                   reachable |-> db = "Database" /\ store_up]
             ELSE confirm_except(payload)
  /\ UNCHANGED <<db, store_up>>

---------------------------------------------------------------------------
(* Inputs *)
Widget(price, quantity) ==
  [product_id |-> "p1", title |-> "Widget", unit_price |-> price, quantity |-> quantity]

ItemPool == {Widget(999, Some(3)), Widget(250, None), Widget(250, Some(0))}

ItemLists == UNION {[1..n -> ItemPool] : n \in 0..MaxItems}

CheckoutBodies == [email : {None}, items : ItemLists, total : {None, Some(1)}]

PaymentBodies ==
  [email : {None}, items : {<<>>, <<Widget(999, Some(3))>>}, total : {None}]

ConfirmBodies == [order_id : 0..(MaxOrders + 1), success : BOOLEAN]

(* checkout only, over every checkout body *)
InitCheckout ==
  /\ db \in {"None", "Database"}
  /\ store_up = TRUE
  /\ store = EmptyStore
  /\ inflight = {}
  /\ resp = NoResponse

NextCheckout ==
  \/ \E body \in CheckoutBodies : checkout(body)
  \/ StoreDown
  \/ StoreUp

SpecCheckout == InitCheckout /\ [][NextCheckout]_vars

(* checkout followed by concurrent payment confirmations *)
Init == InitCheckout

Next ==
  \/ \E body \in PaymentBodies : checkout(body)
  \/ \E payload \in ConfirmBodies : confirm_request(payload)
  \/ \E payload \in ConfirmBodies : confirm_payment(payload)
  \/ StoreDown
  \/ StoreUp

Spec == Init /\ [][Next]_vars

(* no connection string: db is None, every endpoint is called *)
InitNoStore ==
  /\ db = "None"
  /\ store_up = TRUE
  /\ store = EmptyStore
  /\ inflight = {}
  /\ resp = NoResponse

NextNoStore ==
  \/ list_categories
  \/ \E body \in SearchBodies : search_products(body)
  \/ \E body \in CheckoutBodies : checkout(body)
  \/ \E payload \in ConfirmBodies : confirm_request(payload)
  \/ \E payload \in ConfirmBodies : confirm_payment(payload)
  \/ list_blog
  \/ list_testimonials
  \/ list_portfolio

SpecNoStore == InitNoStore /\ [][NextNoStore]_vars

---------------------------------------------------------------------------
(* Properties *)
Orders == store["order"]

OrderStatuses == {"pending", "paid", "failed", "cancelled"}

(* C1: whenever checkout answers 200, its status is "requires_payment",    *)
(* its amount is the sum of unit_price * quantity over the items of the    *)
(* request body (a missing quantity counts 1), whatever total the body     *)
(* carries, and the persisted order has that amount as its total.          *)
C1_CheckoutAmount ==
  (resp.endpoint = "checkout" /\ resp.code = 200) =>
    LET items == resp.req.items
        qty(i) == IF items[i].quantity = None THEN 1 ELSE items[i].quantity[1]
        sum[i \in 0..Len(items)] ==
          IF i = 0 THEN 0 ELSE sum[i - 1] + items[i].unit_price * qty(i)
    IN /\ resp.status = "requires_payment"
       /\ resp.amount = sum[Len(items)]
       /\ resp.order_id \in DOMAIN Orders
       /\ Orders[resp.order_id].total = resp.amount

C1_Witness ==
  /\ resp.endpoint = "checkout" /\ resp.code = 200
  /\ resp.req.items = <<Widget(999, Some(3))>>
  /\ resp.req.total = Some(1)
  /\ resp.amount = 2997
  /\ Orders[resp.order_id].total = 2997

(* C2: after a confirmation handled on a reachable store for an order      *)
(* created by checkout, reading the order shows the requested status.      *)
C2_ConfirmThenRead ==
  (/\ resp.endpoint = "confirm_payment"
   /\ resp.reachable
   /\ resp.req.order_id \in DOMAIN Orders) =>
    Orders[resp.req.order_id].status = Requested(resp.req)

(* C3: without a connection string (db is None) every store-backed         *)
(* endpoint, payment confirmation included, answers 500.                   *)
C3_EveryEndpoint500 ==
  (db = "None" /\ resp.endpoint # "none") => resp.code = 500

(* C4: a product search never returns more products than the limit of the  *)
(* request (24 when the body has no limit), also for a limit <= 0.         *)
C4_SearchLimit ==
  (resp.endpoint = "search_products" /\ resp.code = 200) =>
    Len(resp.products) <= (IF resp.req.limit = None THEN 24 ELSE resp.req.limit[1])

(* C5: every product a search returns satisfies every criterion the body   *)
(* supplies: category equal (also for ""), tags intersecting, q matching   *)
(* title or description case-insensitively.                                *)
C5_SearchCriteria ==
  (resp.endpoint = "search_products" /\ resp.code = 200) =>
    \A i \in DOMAIN resp.products :
      LET p == resp.products[i]
          req == resp.req
      IN /\ req.category # None => p.category = req.category[1]
         /\ req.tags # None => Range(p.tags) \cap Range(req.tags[1]) # {}
         /\ req.q # None => \/ RegexField(req.q[1], Some(p.title))
                            \/ RegexField(req.q[1], p.description)

(* C6: each listing endpoint returns at most 20 documents: the first 20 of *)
(* its own collection, unfiltered.                                         *)
C6_Listings ==
  \A e \in {"list_blog", "list_testimonials", "list_portfolio"} :
    (resp.endpoint = e /\ resp.code = 200) =>
      LET coll == CASE e = "list_blog" -> "blogpost"
                    [] e = "list_testimonials" -> "testimonial"
                    [] OTHER -> "portfolioitem"
          kind == CASE e = "list_blog" -> "BlogPost"
                    [] e = "list_testimonials" -> "Testimonial"
                    [] OTHER -> "PortfolioItem"
      IN /\ Len(resp.docs) <= 20
         /\ Len(resp.docs) = Min(20, Len(store[coll]))
         /\ \A i \in DOMAIN resp.docs :
              resp.docs[i] = store[coll][i] /\ resp.docs[i].kind = kind

C6_Witness ==
  /\ resp.endpoint = "list_blog" /\ resp.code = 200
  /\ Len(store["blogpost"]) > 20
  /\ Len(resp.docs) = 20

(* C7: orders are never deleted, are created pending, and a confirmation   *)
(* handled on a reachable store moves a pending order to the requested     *)
(* status and leaves a paid or failed order as it is.                      *)
C7_MutatedExactlyOnce ==
  [][/\ \A i \in DOMAIN Orders : i \in DOMAIN Orders'
     /\ \A i \in DOMAIN Orders' \ DOMAIN Orders : Orders'[i].status = "pending"
     /\ \A p \in inflight :
          (/\ inflight' = inflight \ {p}
           /\ db = "Database" /\ store_up
           /\ p.order_id \in DOMAIN Orders) =>
            IF Orders[p.order_id].status = "pending"
            THEN Orders'[p.order_id].status = Requested(p)
            ELSE Orders'[p.order_id].status = Orders[p.order_id].status]_vars

(* C8: every stored order has a status among pending, paid, failed,        *)
(* cancelled and only line items of quantity >= 1.                         *)
C8_OrderInvariant ==
  \A i \in DOMAIN Orders :
    /\ Orders[i].status \in OrderStatuses
    /\ \A j \in DOMAIN Orders[i].items : Orders[i].items[j].quantity >= 1

(* C9: handling a confirmation always answers 200 with the requested       *)
(* status, for every order id and store state, and when the update raised  *)
(* the store is left as it was.                                            *)
C9_ConfirmNeverFails ==
  [][\A p \in inflight :
       inflight' = inflight \ {p} =>
         /\ resp'.endpoint = "confirm_payment"
         /\ resp'.code = 200
         /\ resp'.status = Requested(p)
         /\ resp'.raised => store' = store]_vars

C9_Witness ==
  /\ resp.endpoint = "confirm_payment" /\ resp.code = 200
  /\ resp.raised /\ resp.reachable
  /\ resp.req.order_id \in DOMAIN Orders
  /\ resp.status = "failed"

(* C10: when a success=true and a success=false confirmation for the same  *)
(* existing order are in flight on a reachable store, either can be        *)
(* handled first, it answers its own outcome, and its write becomes the    *)
(* stored status (so the one applied last decides the final status).       *)
C10_LastWriteWins ==
  [][\A p \in inflight, q \in inflight :
       (/\ p.order_id = q.order_id /\ p.success # q.success
        /\ p.order_id \in DOMAIN Orders
        /\ db = "Database" /\ store_up
        /\ inflight' = inflight \ {p}) =>
         /\ resp'.status = Requested(p)
         /\ Orders'[p.order_id].status = Requested(p)]_vars

====
